---- MODULE Spec2Model ----
(***************************************************************************)
(* Double-pendulum flip maps: the flip detector, the equations of motion   *)
(* and the single-cell evaluator of pendulums.py, the sequential grid     *)
(* builder of pendulums.py and the process-pool grid builder of           *)
(* multiprocessing_res_map.py, called once or several times in a row.     *)
(*                                                                         *)
(* Angles are fixed-point integers: one unit is np.pi / pi radians, so    *)
(* np.pi itself is the integer pi and every multiple of np.pi / 2 is      *)
(* exact.  Times are in units of 1 / (samples - 1) seconds, so that       *)
(* np.linspace(0, T_final, samples)[k] is the integer k * T_final.        *)
(* A non-finite float is one of the two values nan and inf, which lie far *)
(* outside the range of the finite angles of the model.                   *)
(***************************************************************************)
EXTENDS Integers, Sequences, FiniteSets, TLC

VARIABLES
    \* -- get_flip_points(times, theta2_angles), called on its own
    times,          \* argument: the time stamps
    theta2_angles,  \* argument: the theta2 samples
    fp_pc,          \* "idle" | "called" | "returned" | "raised"
    res,            \* the list returned (<<>> until then)
    fp_error,       \* the exception raised ("none" until then)
    \* -- the arguments of the two grid builders and the integrator's behaviour
    N,              \* grid resolution
    cnst,           \* Constants
    num_processes,  \* pool size of get_resmap_multiproc
    spin,           \* stand-in integrator: drift direction and speed
    bad,            \* stand-in integrator: the cells whose solution is not finite
    \* -- get_resmap_sequential
    seq_pc,         \* "idle" | "start" | "returned" | "raised"
    res_map,        \* the local matrix res_map
    seq_result,     \* what the caller got: a matrix, or None
    seq_calls,      \* the cells count_flips was called for
    \* -- get_resmap_multiproc
    mp_pc,          \* "idle" | "start" | "map" | "assemble" | "returned" | "raised"
    pool,           \* "none" | "running" | "terminated"
    taskqueue,      \* the pool's task queue: chunks of row_args not yet taken
    worker,         \* per worker process: the chunk it holds, or <<>>
    outqueue,       \* the pool's result queue: <<chunk index, outcome>> in flight
    map_value,      \* MapResult._value: the result list, or the first exception
    map_success,    \* MapResult._success
    number_left,    \* MapResult._number_left
    results,        \* the local list results
    mp_result,      \* what the caller got: a matrix, or None
    mp_error,       \* the exception the caller got ("none" if none)
    mp_calls,       \* the cells count_flips was called for in the workers
    completed,      \* history: fill_row outcomes in completion order
    attempts,       \* history: per row index, how often fill_row was started
    mp_call,        \* the number of this call of get_resmap_multiproc, from 1
    pools,          \* history: every Pool created, [call, state], in creation order
    \* -- get_solution(init_theta1, init_theta2, cnst), called on its own
    sol,            \* the rows of sol computed so far: <<th1, th2, om1, om2>>
    ode_pc          \* "idle" | "odeint" | "flips" | "returned"

fp_vars  == <<times, theta2_angles, fp_pc, res, fp_error>>
arg_vars == <<N, cnst, num_processes, spin, bad>>
seq_vars == <<seq_pc, res_map, seq_result, seq_calls>>
mp_vars  == <<mp_pc, pool, taskqueue, worker, outqueue, map_value, map_success,
              number_left, results, mp_result, mp_error, mp_calls, completed,
              attempts, mp_call, pools>>
ode_vars == <<sol, ode_pc>>
vars     == <<fp_vars, arg_vars, seq_vars, mp_vars, ode_vars>>

----------------------------------------------------------------------------
(* Bounds of the model *)

\* theta2 series of the flip detector have at most MaxLen samples ...
MaxLen == 3
\* ... each a multiple of np.pi / 2 between -MaxBand * np.pi and MaxBand * np.pi
MaxBand == 2
\* the grid builders are called with N <= MaxN
MaxN == 3
\* ... and get_resmap_multiproc with num_processes <= MaxProcs
MaxProcs == 2
\* the stand-in integrator returns NumSamples samples (201 in get_solution)
NumSamples == 3
\* a caller calls get_resmap_multiproc at most MaxCalls times in a row
MaxCalls == 2

----------------------------------------------------------------------------
(* Numbers *)

\* np.pi, in angle units
pi == 100

\* non-finite floats
nan == 1000 * pi
inf == 1001 * pi
IsFinite(x) == x # nan /\ x # inf

None == <<>>

\* Constants(), the dataclass defaults; g in tenths
DefaultConstants ==
    [g |-> 98, l1 |-> 1, l2 |-> 1, m1 |-> 1, m2 |-> 1, T_final |-> 10]

\* faulty variant: the quotient rounded down (math.floor) instead of toward zero
IntDivPi_floor(x) == x \div pi

\* faulty variant: the quotient rounded to the nearest integer
IntDivPi_round(x) ==
    IF x >= 0 THEN (2 * x + pi) \div (2 * pi) ELSE -((pi - 2 * x) \div (2 * pi))

\* int(x): truncation toward zero, here of the quotient x / np.pi
IntDivPi(x) == IF x >= 0 THEN x \div pi ELSE -((-x) \div pi)

\* np.linspace(start, stop, num): num equally spaced values, both ends included
linspace(start, stop, num) ==
    [k \in 1..num |->
        IF num = 1 THEN start
        ELSE start + ((k - 1) * (stop - start)) \div (num - 1)]

----------------------------------------------------------------------------
(* pendulums.get_flip_points *)

\* faulty variant: the parity of the band of t1 alone decides, whether or not
\* the band changes
FlipsAt_even_only(t1, t2) == IntDivPi(t1) % 2 = 0

\* faulty variant: every change of band counts, whatever the parity of the band left
FlipsAt_any_band(t1, t2) == IntDivPi(t1) # IntDivPi(t2)

\* the condition of the if statement, for finite t1 and t2
FlipsAt(t1, t2) ==
    IntDivPi(t1) # IntDivPi(t2) /\ IntDivPi(t1) % 2 = 0

\* int(t / np.pi) raises ValueError for nan and OverflowError for inf
IntError(t) == IF t = nan THEN "ValueError" ELSE "OverflowError"

\* faulty variant: the time of the second sample of the pair
FlipTime_second(ts, k) == ts[k + 1]

\* res.append(times[i]): the time stamp of the first sample of the pair
FlipTime(ts, k) == ts[k]

\* faulty variant: the parity test first, so that t2 is converted only when
\* the band of t1 is even
RECURSIVE FlipLoop_parity_first(_, _, _, _)
FlipLoop_parity_first(ts, angles, k, acc) ==
    IF k > Len(angles) - 1 THEN [ok |-> TRUE, val |-> acc]
    ELSE LET t1 == angles[k]
             t2 == angles[k + 1]
         IN  IF ~IsFinite(t1) THEN [ok |-> FALSE, val |-> IntError(t1)]
             ELSE IF IntDivPi(t1) % 2 # 0
                  THEN FlipLoop_parity_first(ts, angles, k + 1, acc)
             ELSE IF ~IsFinite(t2) THEN [ok |-> FALSE, val |-> IntError(t2)]
             ELSE FlipLoop_parity_first(ts, angles, k + 1,
                           IF FlipsAt(t1, t2) THEN Append(acc, FlipTime(ts, k)) ELSE acc)

\* The loop from iteration k (1-based) on, with the list acc built so far:
\* [ok |-> TRUE, val |-> the list returned] or [ok |-> FALSE, val |-> the exception].
\* Both operands of != are converted before the comparison, so each iteration
\* converts t1 and then t2.
RECURSIVE FlipLoop(_, _, _, _)
FlipLoop(ts, angles, k, acc) ==
    IF k > Len(angles) - 1 THEN [ok |-> TRUE, val |-> acc]
    ELSE LET t1 == angles[k]
             t2 == angles[k + 1]
         IN  IF ~IsFinite(t1) THEN [ok |-> FALSE, val |-> IntError(t1)]
             ELSE IF ~IsFinite(t2) THEN [ok |-> FALSE, val |-> IntError(t2)]
             ELSE FlipLoop(ts, angles, k + 1,
                           IF FlipsAt(t1, t2) THEN Append(acc, FlipTime(ts, k)) ELSE acc)

get_flip_points(ts, angles) == FlipLoop(ts, angles, 1, <<>>)

----------------------------------------------------------------------------
(* pendulums.get_solution and pendulums.count_flips *)

\* scipy's odeint is outside the repository.  Its stand-in is a deterministic
\* function of (init_theta1, init_theta2, cnst), fixed for a whole behaviour
\* by the variables spin and bad: like odeint it returns y0 as the first
\* sample; theta2 then drifts by sp * l1 * init_theta1 per sample, and where
\* the solution is not finite every later sample is nan.
odeint_theta2(init_theta1, init_theta2, c, sp, nonfinite) ==
    [k \in 1..NumSamples |->
        IF k > 1 /\ nonfinite THEN nan
        ELSE init_theta2 + (k - 1) * sp * c.l1 * init_theta1]

\* t = np.linspace(0., cnst.T_final, 201) and the theta2 column of sol
get_solution(init_theta1, init_theta2, c, sp, nonfinite) ==
    [t      |-> linspace(0, c.T_final * (NumSamples - 1), NumSamples),
     theta2 |-> odeint_theta2(init_theta1, init_theta2, c, sp, nonfinite)]

\* len(get_flip_points(t, sol.T[1])):
\* [ok |-> TRUE, val |-> the flip count] or [ok |-> FALSE, val |-> the exception]
CountFlipsOf(init_theta1, init_theta2, c, sp, nonfinite) ==
    LET s  == get_solution(init_theta1, init_theta2, c, sp, nonfinite)
        fp == get_flip_points(s.t, s.theta2)
    IN  IF fp.ok THEN [ok |-> TRUE, val |-> Len(fp.val)] ELSE fp

\* Constants values the builders are called with: the defaults, a negative
\* rod length and a zero mass
CnstInputs ==
    {DefaultConstants,
     [DefaultConstants EXCEPT !.l1 = -1],
     [DefaultConstants EXCEPT !.m2 = 0]}

\* every angle of a grid of resolution 1..MaxN
GridAngles ==
    UNION {{linspace(-pi, pi, 2 * n - 1)[k] : k \in 1..(2 * n - 1)} \cup
           {linspace(0, pi, n)[k] : k \in 1..n} : n \in 1..MaxN}

\* count_flips is a function of its arguments and of the integrator alone:
\* its values, evaluated once
FlipTable ==
    [a \in GridAngles \X GridAngles \X CnstInputs \X {-1, 1} \X BOOLEAN |->
        CountFlipsOf(a[1], a[2], a[3], a[4], a[5])]

\* count_flips(init_theta1, init_theta2, cnst) under the integrator of this
\* behaviour
count_flips(init_theta1, init_theta2, c) ==
    FlipTable[<<init_theta1, init_theta2, c, spin,
                <<init_theta1, init_theta2>> \in bad>>]

----------------------------------------------------------------------------
(* pendulums.get_resmap_sequential *)

\* faulty variant: one column too many (2 * N for 2 * N - 1)
zeros_wide(rows, cols) == [r \in 1..rows |-> [c \in 1..(cols + 1) |-> 0]]

\* np.zeros((rows, cols), dtype=int)
zeros(rows, cols) == [r \in 1..rows |-> [c \in 1..cols |-> 0]]

\* The two nested loops from cell (i, j) on (0-based), with the matrix m and
\* the set calls of cells evaluated so far.
RECURSIVE SeqLoop(_, _, _, _, _, _)
SeqLoop(theta1s, theta2s, i, j, m, calls) ==
    IF i >= Len(theta1s) THEN [ok |-> TRUE, map |-> m, calls |-> calls]
    ELSE IF j >= Len(theta2s) THEN SeqLoop(theta1s, theta2s, i + 1, 0, m, calls)
    ELSE LET t1 == theta1s[i + 1]
             t2 == theta2s[j + 1]
             cf == count_flips(t1, t2, cnst)
             cs == calls \cup {<<i, j>>}
         IN  IF ~cf.ok THEN [ok |-> FALSE, map |-> m, calls |-> cs]
             ELSE SeqLoop(theta1s, theta2s, i, j + 1,
                          [m EXCEPT ![i + 1][j + 1] = cf.val], cs)

\* The whole call.  np.zeros raises ValueError for a negative dimension.
get_resmap_sequential ==
    /\ seq_pc = "start"
    /\ IF N < 0 \/ 2 * N - 1 < 0
       THEN /\ seq_pc' = "raised"
            /\ UNCHANGED <<res_map, seq_result, seq_calls>>
       ELSE \E run \in {SeqLoop(linspace(0, pi, N), linspace(-pi, pi, 2 * N - 1),
                                0, 0, zeros(N, 2 * N - 1), {})} :
                /\ res_map' = run.map
                /\ seq_calls' = run.calls
                /\ seq_pc' = IF run.ok THEN "returned" ELSE "raised"
                /\ seq_result' = IF run.ok THEN run.map ELSE None
    /\ UNCHANGED <<fp_vars, ode_vars, arg_vars, mp_vars>>

----------------------------------------------------------------------------
(* multiprocessing_res_map.fill_row *)

\* faulty variant: the two angles passed to count_flips in the wrong order
RECURSIVE RowLoop_swapped(_, _, _, _, _)
RowLoop_swapped(theta1, theta2s, c, j, row) ==
    IF j >= Len(theta2s) THEN [ok |-> TRUE, row |-> row, ncalls |-> j]
    ELSE LET cf == count_flips(theta2s[j + 1], theta1, c)
         IN  IF ~cf.ok THEN [ok |-> FALSE, row |-> cf.val, ncalls |-> j + 1]
             ELSE RowLoop_swapped(theta1, theta2s, c, j + 1, Append(row, cf.val))

\* The list comprehension from column j on (0-based), with the row built so far.
RECURSIVE RowLoop(_, _, _, _, _)
RowLoop(theta1, theta2s, c, j, row) ==
    IF j >= Len(theta2s) THEN [ok |-> TRUE, row |-> row, ncalls |-> j]
    ELSE LET cf == count_flips(theta1, theta2s[j + 1], c)
         IN  IF ~cf.ok THEN [ok |-> FALSE, row |-> cf.val, ncalls |-> j + 1]
             ELSE RowLoop(theta1, theta2s, c, j + 1, Append(row, cf.val))

\* args = (i, theta1, theta2s, cnst); returns (i, row), or raises what
\* count_flips raised.  ncalls is the number of count_flips calls made.
fill_row(args) ==
    LET r == RowLoop(args.theta1, args.theta2s, args.cnst, 0, <<>>)
    IN  IF r.ok THEN [ok |-> TRUE, val |-> <<args.i, r.row>>, ncalls |-> r.ncalls]
        ELSE [ok |-> FALSE, val |-> [exc |-> r.row, row |-> args.i],
              ncalls |-> r.ncalls]

----------------------------------------------------------------------------
(* multiprocessing.Pool as get_resmap_multiproc uses it: Pool(num_processes), *)
(* pool.map(fill_row, row_args) and the exit of the with block               *)

NoError == [exc |-> "none", row |-> -1]
Idle == [idx |-> -1, chunk |-> <<>>]
Workers == 1..num_processes

\* Pool.map's default chunksize for an iterable of n items
ChunkSize(n, procs) ==
    IF n = 0 THEN 0
    ELSE (n \div (procs * 4)) + (IF n % (procs * 4) # 0 THEN 1 ELSE 0)

\* Pool._get_tasks: the items cut into consecutive chunks, numbered from 0
TaskBatches(items, size) ==
    LET n  == Len(items)
        nb == (n \div size) + (IF n % size # 0 THEN 1 ELSE 0)
    IN  [b \in 1..nb |->
            [idx   |-> b - 1,
             chunk |-> SubSeq(items, (b - 1) * size + 1,
                              IF b * size < n THEN b * size ELSE n)]]

\* mapstar: list(map(fill_row, chunk)) from item k on.  The first raise ends it.
RECURSIVE MapStar(_, _, _, _)
MapStar(chunk, k, done, log) ==
    IF k > Len(chunk) THEN [ok |-> TRUE, val |-> done, log |-> log]
    ELSE LET r == fill_row(chunk[k])
             e == [i |-> chunk[k].i, ok |-> r.ok, val |-> r.val, ncalls |-> r.ncalls]
         IN  IF ~r.ok THEN [ok |-> FALSE, val |-> r.val, log |-> Append(log, e)]
             ELSE MapStar(chunk, k + 1, Append(done, r.val), Append(log, e))

\* a worker process takes the next task from the task queue
WorkerGet(w) ==
    /\ pool = "running"
    /\ worker[w] = Idle
    /\ taskqueue # <<>>
    /\ worker' = [worker EXCEPT ![w] = Head(taskqueue)]
    /\ taskqueue' = Tail(taskqueue)
    /\ UNCHANGED <<fp_vars, ode_vars, arg_vars, seq_vars, mp_pc, pool, outqueue, map_value,
                   map_success, number_left, results, mp_result, mp_error,
                   mp_calls, completed, attempts, mp_call, pools>>

\* ... runs it and puts (idx, (success, value)) on the result queue
WorkerRun(w) ==
    /\ pool = "running"
    /\ worker[w] # Idle
    /\ \E r \in {MapStar(worker[w].chunk, 1, <<>>, <<>>)} :
       \E rows \in {{r.log[k].i : k \in 1..Len(r.log)}} :
           /\ outqueue' = Append(outqueue,
                                 [idx |-> worker[w].idx, ok |-> r.ok, val |-> r.val])
           /\ completed' = completed \o r.log
           /\ attempts' = [x \in DOMAIN attempts |->
                              attempts[x] + (IF x \in rows THEN 1 ELSE 0)]
           /\ mp_calls' = mp_calls \cup
                  UNION {{<<r.log[k].i, j>> : j \in 0..(r.log[k].ncalls - 1)} :
                         k \in 1..Len(r.log)}
    /\ worker' = [worker EXCEPT ![w] = Idle]
    /\ UNCHANGED <<fp_vars, ode_vars, arg_vars, seq_vars, mp_pc, pool, taskqueue, map_value,
                   map_success, number_left, results, mp_result, mp_error,
                   mp_call, pools>>

\* faulty variant: a failed chunk is dropped, its rows stay at their placeholder
MapResultSet_swallow(value, success, size, msg) ==
    IF msg.ok
    THEN [value   |-> [k \in 1..Len(value) |->
                          IF /\ k > msg.idx * size
                             /\ k <= msg.idx * size + Len(msg.val)
                          THEN msg.val[k - msg.idx * size]
                          ELSE value[k]],
          success |-> success]
    ELSE [value |-> value, success |-> success]

\* MapResult._set(i, (success, result)): [value, success] afterwards
MapResultSet(value, success, size, msg) ==
    IF msg.ok /\ success
    THEN [value   |-> [k \in 1..Len(value) |->
                          IF /\ k > msg.idx * size
                             /\ k <= msg.idx * size + Len(msg.val)
                          THEN msg.val[k - msg.idx * size]
                          ELSE value[k]],
          success |-> TRUE]
    ELSE IF ~msg.ok /\ success
    THEN [value |-> msg.val, success |-> FALSE]   \* only the first exception
    ELSE [value |-> value, success |-> success]

\* the pool's result handler thread takes one message from the result queue
HandleResult ==
    /\ pool = "running"
    /\ outqueue # <<>>
    /\ \E s \in {MapResultSet(map_value, map_success,
                              ChunkSize(N, num_processes), Head(outqueue))} :
           /\ map_value' = s.value
           /\ map_success' = s.success
    /\ number_left' = number_left - 1
    /\ outqueue' = Tail(outqueue)
    /\ UNCHANGED <<fp_vars, ode_vars, arg_vars, seq_vars, mp_pc, pool, taskqueue, worker,
                   results, mp_result, mp_error, mp_calls, completed, attempts,
                   mp_call, pools>>

----------------------------------------------------------------------------
(* multiprocessing_res_map.get_resmap_multiproc *)

\* faulty variant: the workers get Constants() instead of the caller's cnst
RowArgs_default_cnst(theta1s, theta2s, c) ==
    [k \in 1..Len(theta1s) |->
        [i |-> k - 1, theta1 |-> theta1s[k], theta2s |-> theta2s,
         cnst |-> DefaultConstants]]

\* row_args = [(i, theta1, theta2s, cnst) for i, theta1 in enumerate(theta1s)]
RowArgs(theta1s, theta2s, c) ==
    [k \in 1..Len(theta1s) |->
        [i |-> k - 1, theta1 |-> theta1s[k], theta2s |-> theta2s, cnst |-> c]]

\* Lines 13-22 up to the dispatch: the two linspace calls (np.linspace raises
\* ValueError for a negative number of samples), Pool(num_processes) (which
\* raises ValueError for fewer than one process), row_args, and pool.map
\* putting its tasks on the task queue.
MpStart ==
    /\ mp_pc = "start"
    /\ seq_pc # "start"      \* the caller's call of get_resmap_sequential is over
    /\ IF N < 0 \/ 2 * N - 1 < 0 \/ num_processes < 1
       THEN /\ mp_pc' = "raised"
            /\ mp_error' = [exc |-> "ValueError", row |-> -1]
            /\ UNCHANGED <<pool, taskqueue, worker, map_value, map_success,
                           number_left, attempts, pools>>
       ELSE LET theta1s == linspace(0, pi, N)
                theta2s == linspace(-pi, pi, 2 * N - 1)
                batches == TaskBatches(RowArgs(theta1s, theta2s, cnst),
                                       ChunkSize(N, num_processes))
            IN  /\ pool' = "running"
                /\ pools' = Append(pools, [call |-> mp_call, state |-> "running"])
                /\ worker' = [w \in Workers |-> Idle]
                /\ taskqueue' = batches
                /\ number_left' = Len(batches)
                /\ map_value' = [k \in 1..N |-> None]
                /\ map_success' = TRUE
                /\ attempts' = [x \in 0..(N - 1) |-> 0]
                /\ mp_pc' = "map"
                /\ UNCHANGED mp_error
    /\ UNCHANGED <<fp_vars, ode_vars, arg_vars, seq_vars, outqueue, results, mp_result,
                   mp_calls, completed, mp_call>>

\* faulty variant: pool.terminate() as a statement after pool.map instead of
\* a with block, so that an exception of pool.map skips it
PoolExit_on_success_only(w, success) ==
    IF success THEN [state |-> "terminated", worker |-> <<>>]
    ELSE [state |-> "running", worker |-> w]

\* Pool.__exit__ at the end of the with block, left normally or by an
\* exception: terminate(), which stops and joins every worker process.
\* w is the pool's worker processes; the result is the pool afterwards.
PoolExit(w, success) == [state |-> "terminated", worker |-> <<>>]

\* pool.map returns once every chunk has reported: the result list, or it
\* raises the stored exception.  Either way the with block then terminates
\* the pool.
MpMapReturn ==
    /\ mp_pc = "map"
    /\ number_left = 0
    /\ \E after \in {PoolExit(worker, map_success)} :
           /\ pool' = after.state
           /\ worker' = after.worker
           /\ pools' = [pools EXCEPT ![Len(pools)].state = after.state]
    /\ IF map_success
       THEN /\ results' = map_value
            /\ mp_pc' = "assemble"
            /\ UNCHANGED mp_error
       ELSE /\ mp_error' = map_value
            /\ mp_pc' = "raised"
            /\ UNCHANGED results
    /\ UNCHANGED <<fp_vars, ode_vars, arg_vars, seq_vars, taskqueue, outqueue,
                   map_value, map_success, number_left, mp_result, mp_calls,
                   completed, attempts, mp_call>>

\* faulty variant: sorted in descending order (reverse=True)
SortResults_descending(rs) ==
    LET rank(p) == Cardinality({q \in 1..Len(rs) :
                       rs[q][1] > rs[p][1] \/ (rs[q][1] = rs[p][1] /\ q < p)}) + 1
    IN  [k \in 1..Len(rs) |-> rs[CHOOSE p \in 1..Len(rs) : rank(p) = k]]

\* results.sort(): tuples (i, row) in ascending order of i (the i are distinct)
SortResults(rs) ==
    LET rank(p) == Cardinality({q \in 1..Len(rs) :
                       rs[q][1] < rs[p][1] \/ (rs[q][1] = rs[p][1] /\ q < p)}) + 1
    IN  [k \in 1..Len(rs) |-> rs[CHOOSE p \in 1..Len(rs) : rank(p) = k]]

\* filled_rows = [row for _, row in results]; np.array(filled_rows, dtype=int)
FilledRows(rs) == [k \in 1..Len(rs) |-> rs[k][2]]

\* Lines 24-33: sort, extract the rows, build the matrix, return it.
MpAssemble ==
    /\ mp_pc = "assemble"
    /\ results' = SortResults(results)
    /\ mp_result' = FilledRows(results')
    /\ mp_pc' = "returned"
    /\ UNCHANGED <<fp_vars, ode_vars, arg_vars, seq_vars, pool, taskqueue, worker,
                   outqueue, map_value, map_success, number_left, mp_error,
                   mp_calls, completed, attempts, mp_call, pools>>

----------------------------------------------------------------------------
(* The grid builders: a caller calls get_resmap_sequential(N, cnst) and    *)
(* then get_resmap_multiproc(N, cnst, num_processes), whether or not the   *)
(* first call raised                                                        *)

\* the cells that may have a non-finite solution: one per row, row i's in
\* column 2 * i
BadCandidates(n) ==
    IF n < 1 THEN {}
    ELSE {<<linspace(0, pi, n)[i + 1], linspace(-pi, pi, 2 * n - 1)[2 * i + 1]>> :
          i \in 0..(n - 1)}

FlipIdle ==
    /\ times = <<>>
    /\ theta2_angles = <<>>
    /\ fp_pc = "idle"
    /\ res = <<>>
    /\ fp_error = "none"

SeqFresh(pc) ==
    /\ seq_pc = pc
    /\ res_map = None
    /\ seq_result = None
    /\ seq_calls = {}

MpFresh(pc) ==
    /\ mp_pc = pc
    /\ pool = "none"
    /\ taskqueue = <<>>
    /\ worker = <<>>
    /\ outqueue = <<>>
    /\ map_value = <<>>
    /\ map_success = TRUE
    /\ number_left = 0
    /\ results = <<>>
    /\ mp_result = None
    /\ mp_error = NoError
    /\ mp_calls = {}
    /\ completed = <<>>
    /\ attempts = <<>>
    /\ mp_call = 1
    /\ pools = <<>>

OdeIdle ==
    /\ sol = <<>>
    /\ ode_pc = "idle"

Init ==
    /\ N \in (-1)..MaxN
    /\ num_processes \in (-1)..MaxProcs
    /\ cnst \in CnstInputs
    /\ spin \in {-1, 1}
    /\ bad \in SUBSET BadCandidates(N)
    /\ FlipIdle
    /\ SeqFresh("start")
    /\ MpFresh("start")
    /\ OdeIdle

Next ==
    \/ get_resmap_sequential
    \/ MpStart
    \/ \E w \in Workers : WorkerGet(w)
    \/ \E w \in Workers : WorkerRun(w)
    \/ HandleResult
    \/ MpMapReturn
    \/ MpAssemble

Spec == Init /\ [][Next]_vars

----------------------------------------------------------------------------
(* get_resmap_multiproc called several times in a row by one caller *)

\* the caller, whose call has returned or raised, calls get_resmap_multiproc
\* again with the same arguments: the locals of the new call are fresh, the
\* processes and queues of the pools created so far are what they are
MpCallAgain ==
    /\ mp_pc \in {"returned", "raised"}
    /\ mp_call < MaxCalls
    /\ mp_call' = mp_call + 1
    /\ mp_pc' = "start"
    /\ pool' = "none"
    /\ map_value' = <<>>
    /\ map_success' = TRUE
    /\ number_left' = 0
    /\ results' = <<>>
    /\ mp_result' = None
    /\ mp_error' = NoError
    /\ mp_calls' = {}
    /\ completed' = <<>>
    /\ attempts' = <<>>
    /\ UNCHANGED <<fp_vars, ode_vars, arg_vars, seq_vars, taskqueue, worker,
                   outqueue, pools>>

InitPool ==
    /\ N \in 0..MaxN
    /\ num_processes \in 0..MaxProcs
    /\ cnst = DefaultConstants
    /\ spin = 1
    /\ bad \in SUBSET BadCandidates(N)
    /\ FlipIdle
    /\ SeqFresh("idle")
    /\ MpFresh("start")
    /\ OdeIdle

NextPool ==
    \/ MpStart
    \/ \E w \in Workers : WorkerGet(w)
    \/ \E w \in Workers : WorkerRun(w)
    \/ HandleResult
    \/ MpMapReturn
    \/ MpAssemble
    \/ MpCallAgain

SpecPool == InitPool /\ [][NextPool]_vars

----------------------------------------------------------------------------
(* The flip detector, called on its own on a theta2 series *)

\* the finite sample values: the multiples of np.pi / 2 up to MaxBand * np.pi
AngleGrid == {k * (pi \div 2) : k \in (-2 * MaxBand)..(2 * MaxBand)}

RECURSIVE SeriesOver(_, _)
SeriesOver(S, n) ==
    IF n = 0 THEN {<<>>}
    ELSE LET shorter == SeriesOver(S, n - 1)
         IN  shorter \cup {Append(s, x) : s \in {t \in shorter : Len(t) = n - 1},
                                          x \in S}

\* [0.1, pi*0.9, pi*1.1, pi*2.9, pi*3.1]; 0.1 rad is 0.0318 np.pi
BoundarySeries ==
    <<(3 * pi) \div 100, (9 * pi) \div 10, (11 * pi) \div 10,
      (29 * pi) \div 10, (31 * pi) \div 10>>

FlipInputs == SeriesOver(AngleGrid \cup {nan, inf}, MaxLen) \cup {BoundarySeries}

InitFlip ==
    /\ theta2_angles \in FlipInputs
    /\ times = linspace(0, DefaultConstants.T_final * (Len(theta2_angles) - 1),
                        Len(theta2_angles))
    /\ fp_pc = "called"
    /\ res = <<>>
    /\ fp_error = "none"
    /\ N = 0
    /\ num_processes = 0
    /\ cnst = DefaultConstants
    /\ spin = 1
    /\ bad = {}
    /\ SeqFresh("idle")
    /\ MpFresh("idle")
    /\ OdeIdle

\* the call get_flip_points(times, theta2_angles)
CallGetFlipPoints ==
    /\ fp_pc = "called"
    /\ LET r == get_flip_points(times, theta2_angles)
       IN  IF r.ok
           THEN /\ res' = r.val
                /\ fp_pc' = "returned"
                /\ UNCHANGED fp_error
           ELSE /\ fp_error' = r.val
                /\ fp_pc' = "raised"
                /\ UNCHANGED res
    /\ UNCHANGED <<times, theta2_angles, arg_vars, seq_vars, mp_vars, ode_vars>>

NextFlip == CallGetFlipPoints

SpecFlip == InitFlip /\ [][NextFlip]_vars

----------------------------------------------------------------------------
(* pendulums.right_hand_side and pendulums.get_solution, on initial angles *)
(* that are multiples of np.pi / 2.  A float is an integer number of units *)
(* of 1 / one; only whether a value is zero, and its sign, are meant.       *)

\* the float 1.0, in units of the smallest magnitude told apart from zero
one == 1000

\* np.sin of a multiple of np.pi / 2: exactly 0 only at 0.0, since np.pi is
\* not the number pi (np.sin(np.pi) is 1.2e-16, np.sin(2 * np.pi) is -2.4e-16)
sin(x) ==
    LET r == (x \div (pi \div 2)) % 4
    IN  IF x = 0 THEN 0
        ELSE IF r = 1 THEN one
        ELSE IF r = 3 THEN -one
        ELSE IF r = 2 THEN (IF x > 0 THEN 1 ELSE -1)
        ELSE (IF x > 0 THEN -1 ELSE 1)

\* np.cos of a multiple of np.pi / 2: an even function, exactly 1.0 and -1.0
\* at the even multiples, tiny and nonzero at the odd ones
cos(x) ==
    LET a == IF x >= 0 THEN x ELSE -x
        r == (a \div (pi \div 2)) % 4
    IN  IF r = 0 THEN one
        ELSE IF r = 2 THEN -one
        ELSE IF r = 1 THEN 1
        ELSE -1

\* float division n / d, rounded away from zero so that a nonzero quotient
\* stays nonzero; numpy gives nan for 0 / 0 and an infinity for x / 0
FloatDiv(n, d) ==
    IF d = 0 THEN (IF n = 0 THEN nan ELSE inf)
    ELSE LET an == IF n >= 0 THEN n ELSE -n
             ad == IF d >= 0 THEN d ELSE -d
             q  == (an + ad - 1) \div ad
         IN  IF (n >= 0) = (d >= 0) THEN q ELSE -q

\* faulty variant: cos(th1) for sin(th1) in the gravity term of the first
\* angular acceleration
right_hand_side_cos_gravity(y, t, c) ==
    LET th1 == y[1]
        th2 == y[2]
        om1 == y[3]
        om2 == y[4]
        den == (2 * c.m1 + c.m2) * one - c.m2 * cos(2 * th1 - 2 * th2)
    IN  <<om1,
          om2,
          FloatDiv(- c.g * (2 * c.m1 + c.m2) * cos(th1) * one
                   - c.m2 * c.g * sin(th1 - 2 * th2) * one
                   - 2 * sin(th1 - th2) * c.m2
                       * (om2 * om2 * c.l2 * one
                          + om1 * om1 * c.l1 * cos(th1 - th2)),
                   c.l1 * den),
          FloatDiv(2 * sin(th1 - th2)
                       * (om1 * om1 * c.l1 * (c.m1 + c.m2) * one
                          + c.g * (c.m1 + c.m2) * cos(th1)
                          + om2 * om2 * c.l2 * c.m2 * cos(th1 - th2)),
                   c.l2 * den)>>

\* dydt for y = <<th1, th2, om1, om2>>; t is not used.  Numerators are in
\* units of 1 / one^2 and denominators in units of 1 / one.
right_hand_side(y, t, c) ==
    LET th1 == y[1]
        th2 == y[2]
        om1 == y[3]
        om2 == y[4]
        den == (2 * c.m1 + c.m2) * one - c.m2 * cos(2 * th1 - 2 * th2)
    IN  <<om1,
          om2,
          FloatDiv(- c.g * (2 * c.m1 + c.m2) * sin(th1) * one
                   - c.m2 * c.g * sin(th1 - 2 * th2) * one
                   - 2 * sin(th1 - th2) * c.m2
                       * (om2 * om2 * c.l2 * one
                          + om1 * om1 * c.l1 * cos(th1 - th2)),
                   c.l1 * den),
          FloatDiv(2 * sin(th1 - th2)
                       * (om1 * om1 * c.l1 * (c.m1 + c.m2) * one
                          + c.g * (c.m1 + c.m2) * cos(th1)
                          + om2 * om2 * c.l2 * c.m2 * cos(th1 - th2)),
                   c.l2 * den)>>

\* the zero vector of the state space
AtRest == <<0, 0, 0, 0>>

\* Constants values with l1, l2, m1, m2, T_final > 0 and g >= 0
ValidCnstInputs ==
    {[g |-> g, l1 |-> l1, l2 |-> l2, m1 |-> m1, m2 |-> m2, T_final |-> T] :
        g \in {0, DefaultConstants.g}, l1 \in 1..2, l2 \in 1..2,
        m1 \in 1..2, m2 \in 1..2, T \in {1, DefaultConstants.T_final}}

\* a sample kept inside the angle range of the model
Clip(x) ==
    IF x > MaxBand * pi THEN MaxBand * pi
    ELSE IF x < -MaxBand * pi THEN -MaxBand * pi
    ELSE x

\* The samples odeint may return after the samples s of a solution for the
\* time stamps ts.  odeint advances the state by combinations of values of
\* right_hand_side: where right_hand_side is zero at y0 the solution is the
\* constant y0.  Elsewhere nothing is assumed of it but that theta2 moves by
\* at most a quarter turn per sample.
OdeintNext(s, ts, c) ==
    IF right_hand_side(s[1], ts[1], c) = AtRest THEN {s[1]}
    ELSE LET y == s[Len(s)]
         IN  {<<y[1], Clip(y[2] + d * (pi \div 2)), 0, d>> : d \in {-1, 0, 1}}

\* get_solution(init_theta1, init_theta2, cnst) is called: sol holds y0
InitOde ==
    /\ cnst \in ValidCnstInputs
    /\ \E init_theta1 \in {linspace(0, pi, 3)[k] : k \in 1..3},
          init_theta2 \in {linspace(-pi, pi, 5)[k] : k \in 1..5} :
           sol = <<(<<init_theta1, init_theta2, 0, 0>>)>>
    /\ ode_pc = "odeint"
    /\ N = 0
    /\ num_processes = 0
    /\ spin = 1
    /\ bad = {}
    /\ FlipIdle
    /\ SeqFresh("idle")
    /\ MpFresh("idle")

\* odeint computes the next row of sol
OdeintStep ==
    /\ ode_pc = "odeint"
    /\ Len(sol) < NumSamples
    /\ \E y \in OdeintNext(sol, linspace(0, cnst.T_final * (NumSamples - 1),
                                          NumSamples), cnst) :
           sol' = Append(sol, y)
    /\ UNCHANGED <<ode_pc, fp_vars, arg_vars, seq_vars, mp_vars>>

\* get_solution returns t, sol and count_flips calls
\* get_flip_points(t, sol.T[1])
CountFlipsCall ==
    /\ ode_pc = "odeint"
    /\ Len(sol) = NumSamples
    /\ times' = linspace(0, cnst.T_final * (NumSamples - 1), NumSamples)
    /\ theta2_angles' = [k \in 1..NumSamples |-> sol[k][2]]
    /\ fp_pc' = "called"
    /\ ode_pc' = "flips"
    /\ UNCHANGED <<sol, res, fp_error, arg_vars, seq_vars, mp_vars>>

NextOde ==
    \/ OdeintStep
    \/ CountFlipsCall
    \/ CallGetFlipPoints

SpecOde == InitOde /\ [][NextOde]_vars

----------------------------------------------------------------------------
(* Claims about the flip detector (checked under SpecFlip) *)

AllFinite(s) == \A k \in 1..Len(s) : IsFinite(s[k])

\* the band of x as a mathematical statement, independent of IntDivPi:
\* [b pi, (b+1) pi) for x >= 0 and ((b-1) pi, b pi] for x < 0, so that band 0
\* is the open interval (-pi, pi)
BandRange == (-(MaxBand + 4))..(MaxBand + 4)
TruncBand(x) ==
    CHOOSE b \in BandRange :
        IF x >= 0 THEN b * pi <= x /\ x < (b + 1) * pi
        ELSE (b - 1) * pi < x /\ x <= b * pi
\* floor(x / pi): the band [b pi, (b+1) pi) for every x
FloorBand(x) == CHOOSE b \in BandRange : b * pi <= x /\ x < (b + 1) * pi

\* the indices k (1-based) of the pairs (s[k], s[k+1]) a band rule selects
TruncFlips(s) ==
    {k \in 1..(Len(s) - 1) :
        TruncBand(s[k]) # TruncBand(s[k + 1]) /\ TruncBand(s[k]) % 2 = 0}
FloorFlips(s) ==
    {k \in 1..(Len(s) - 1) :
        FloorBand(s[k]) # FloorBand(s[k + 1]) /\ FloorBand(s[k]) % 2 = 0}

\* the list of ts[k] for k in K, in ascending order of k
TimesAt(ts, K) ==
    [n \in 1..Cardinality(K) |->
        ts[CHOOSE k \in K : Cardinality({x \in K : x < k}) = n - 1]]

\* C3 as stated: the result is that of the floor-based rule on every finite
\* theta2 series, negative angles included.
C3_FloorRuleEverywhere ==
    (fp_pc = "returned" /\ AllFinite(theta2_angles))
        => res = TimesAt(times, FloorFlips(theta2_angles))

\* C3 as amended: a flip is recorded at times[k] exactly when the bands of
\* t2[k] and t2[k+1] differ and the band of t2[k] is even, the band being the
\* quotient by pi truncated toward zero; on a series without negative angles
\* this is the result of the floor-based rule.
C3_TruncRule ==
    (fp_pc = "returned" /\ AllFinite(theta2_angles))
        => /\ res = TimesAt(times, TruncFlips(theta2_angles))
           /\ (\A k \in 1..Len(theta2_angles) : theta2_angles[k] >= 0)
                  => res = TimesAt(times, FloorFlips(theta2_angles))

\* a flip recorded on a series that holds a negative angle
C3_Witness ==
    /\ fp_pc = "returned"
    /\ AllFinite(theta2_angles)
    /\ \E k \in 1..Len(theta2_angles) : theta2_angles[k] < 0
    /\ res # <<>>

\* s moves monotonically through one full revolution: up is 1 or -1
Monotone(s, up) == \A k \in 1..(Len(s) - 1) : up * (s[k + 1] - s[k]) >= 0
Revolution(s, up) ==
    /\ Len(s) >= 2
    /\ AllFinite(s)
    /\ Monotone(s, up)
    /\ s[Len(s)] - s[1] = up * 2 * pi
Dist(a, b) == IF a >= b THEN a - b ELSE b - a
FloorAdjacent(s) ==
    \A k \in 1..(Len(s) - 1) : Dist(FloorBand(s[k]), FloorBand(s[k + 1])) <= 1
TruncAdjacent(s) ==
    \A k \in 1..(Len(s) - 1) : Dist(TruncBand(s[k]), TruncBand(s[k + 1])) <= 1

\* C4 as stated: every monotone full revolution whose consecutive samples are
\* in the same or adjacent pi-bands records exactly one flip, wherever it starts.
C4_OneFlipEverywhere ==
    (/\ fp_pc = "returned"
     /\ \E up \in {-1, 1} : Revolution(theta2_angles, up)
     /\ FloorAdjacent(theta2_angles))
        => Len(res) = 1

\* the revolution starts strictly between pi and 2 pi away from zero and moves
\* toward zero, so that it ends strictly inside (-pi, pi)
TowardZeroFromBandOne(s, up) ==
    \/ up = 1 /\ -2 * pi < s[1] /\ s[1] < -pi
    \/ up = -1 /\ pi < s[1] /\ s[1] < 2 * pi

\* C4 as amended: with the bands taken as the code takes them (quotient by pi
\* truncated toward zero), a monotone full revolution whose consecutive samples
\* are in the same or adjacent bands records exactly one flip, except that it
\* records none when it starts strictly between pi and 2 pi away from zero and
\* moves toward zero.
C4_OneFlipUnlessTowardZero ==
    \A up \in {-1, 1} :
        (/\ fp_pc = "returned"
         /\ Revolution(theta2_angles, up)
         /\ TruncAdjacent(theta2_angles))
            => Len(res) = IF TowardZeroFromBandOne(theta2_angles, up) THEN 0 ELSE 1

\* a revolution that starts at a negative angle and records its one flip
C4_Witness ==
    /\ fp_pc = "returned"
    /\ \E up \in {-1, 1} : Revolution(theta2_angles, up)
    /\ TruncAdjacent(theta2_angles)
    /\ theta2_angles[1] < 0
    /\ Len(res) = 1

\* C5: the series [0.1, 0.9 pi, 1.1 pi, 2.9 pi, 3.1 pi] yields exactly two
\* flips, recorded at times[1] and times[3] (0-based): the crossings out of
\* bands 0 and 2 count, the crossing out of band 1 does not.
C5_BoundarySeriesTwoFlips ==
    (fp_pc \in {"returned", "raised"} /\ theta2_angles = BoundarySeries)
        => /\ fp_pc = "returned"
           /\ res = <<times[2], times[4]>>
           /\ times[2] = DefaultConstants.T_final
           /\ times[4] = 3 * DefaultConstants.T_final

C5_Witness ==
    /\ fp_pc = "returned"
    /\ theta2_angles = BoundarySeries
    /\ Len(res) = 2

NonFinite(s) == {k \in 1..Len(s) : ~IsFinite(s[k])}

\* C11 as stated: a theta2 series that holds a non-finite value makes the flip
\* detector fail with an error instead of returning a list, whatever its length.
C11_NonFiniteAlwaysRaises ==
    (fp_pc \in {"returned", "raised"} /\ NonFinite(theta2_angles) # {})
        => fp_pc = "raised"

\* the first sample a loop over at least two samples cannot convert
FirstNonFinite(s) == s[CHOOSE k \in NonFinite(s) : \A n \in NonFinite(s) : k <= n]

\* count_flips raises, whatever its arguments, where the solution is not finite
CountFlipsRaisesOnNonFinite ==
    \A a \in DOMAIN FlipTable :
        a[5] => (~FlipTable[a].ok /\ FlipTable[a].val = "ValueError")

\* C11 as amended: a theta2 series of at least two samples that holds a
\* non-finite value makes the flip detector fail with the conversion error of
\* its first non-finite sample (ValueError for nan, OverflowError for inf) and
\* return no list; so does count_flips, whose series has NumSamples >= 2
\* samples.  A series of one sample is never converted: the detector returns
\* the empty list for it, also when the sample is not finite.
C11_NonFiniteRaisesFromTwoSamples ==
    /\ (fp_pc \in {"returned", "raised"} /\ NonFinite(theta2_angles) # {})
           => IF Len(theta2_angles) >= 2
              THEN /\ fp_pc = "raised"
                   /\ fp_error = IntError(FirstNonFinite(theta2_angles))
                   /\ res = <<>>
              ELSE fp_pc = "returned" /\ res = <<>>
    /\ fp_pc = "raised" => NonFinite(theta2_angles) # {}
    /\ CountFlipsRaisesOnNonFinite

\* the detector has raised on a series whose only non-finite sample is the last
C11_Witness ==
    /\ fp_pc = "raised"
    /\ Len(theta2_angles) >= 2
    /\ NonFinite(theta2_angles) = {Len(theta2_angles)}
    /\ fp_error = "OverflowError"

SameFloorBands(s) ==
    \A k \in 1..(Len(s) - 1) : FloorBand(s[k]) = FloorBand(s[k + 1])
SameTruncBands(s) ==
    \A k \in 1..(Len(s) - 1) : TruncBand(s[k]) = TruncBand(s[k + 1])

\* C14 as stated: a finite theta2 series whose consecutive samples are always in
\* the same pi-band [b pi, (b+1) pi) yields the empty list, without error.
C14_SameFloorBandNoFlips ==
    (/\ fp_pc \in {"returned", "raised"}
     /\ AllFinite(theta2_angles)
     /\ SameFloorBands(theta2_angles))
        => fp_pc = "returned" /\ res = <<>>

\* C14 as amended: on every finite theta2 series the detector returns without
\* error a list of between 0 and Len - 1 flips, which is empty for a series of
\* length 0 or 1 and for a series whose consecutive samples are always in the
\* same band, the band being the quotient by pi truncated toward zero.
C14_SameTruncBandNoFlips ==
    (fp_pc \in {"returned", "raised"} /\ AllFinite(theta2_angles))
        => /\ fp_pc = "returned"
           /\ fp_error = "none"
           /\ Len(res) >= 0
           /\ Len(res) <= (IF theta2_angles = <<>> THEN 0 ELSE Len(theta2_angles) - 1)
           /\ Len(theta2_angles) <= 1 => res = <<>>
           /\ SameTruncBands(theta2_angles) => res = <<>>

\* no flip on a series that moves inside one band away from band 0
C14_Witness ==
    /\ fp_pc = "returned"
    /\ AllFinite(theta2_angles)
    /\ Len(theta2_angles) >= 2
    /\ SameTruncBands(theta2_angles)
    /\ TruncBand(theta2_angles[1]) # 0
    /\ theta2_angles[1] # theta2_angles[2]
    /\ res = <<>>

InsideBandZero(s) == \A k \in 1..Len(s) : -pi < s[k] /\ s[k] < pi

\* C15: every theta2 value strictly between -pi and pi is in band 0 of the
\* code's conversion, and a series whose samples all lie strictly inside
\* (-pi, pi) yields no flip, also when it crosses theta2 = 0 upward or downward.
C15_NoFlipInsideBandZero ==
    /\ \A x \in AngleGrid \cup {BoundarySeries[1], -BoundarySeries[1]} :
           (-pi < x /\ x < pi) => IntDivPi(x) = 0
    /\ (fp_pc \in {"returned", "raised"} /\ InsideBandZero(theta2_angles))
           => fp_pc = "returned" /\ res = <<>>

\* no flip on a series inside (-pi, pi) that crosses zero in both directions
C15_Witness ==
    /\ fp_pc = "returned"
    /\ InsideBandZero(theta2_angles)
    /\ \E k \in 1..(Len(theta2_angles) - 1) :
           theta2_angles[k] > 0 /\ theta2_angles[k + 1] < 0
    /\ \E k \in 1..(Len(theta2_angles) - 1) :
           theta2_angles[k] < 0 /\ theta2_angles[k + 1] > 0
    /\ res = <<>>

----------------------------------------------------------------------------
(* Claims about the grid builders (checked under Spec) *)

\* the positions in completed of the fill_row calls that raised
Failed == {k \in 1..Len(completed) : ~completed[k].ok}
\* the workers finished two rows in the opposite order of their indices
OutOfOrder ==
    \E p, q \in 1..Len(completed) : p < q /\ completed[p].i > completed[q].i

\* C1: for the same (N, cnst) and any pool size, the matrix returned by
\* get_resmap_multiproc equals the matrix returned by get_resmap_sequential
\* cell for cell, whatever order the workers complete their rows in.
C1_MultiprocEqualsSequential ==
    (mp_pc = "returned" /\ seq_pc = "returned") => mp_result = seq_result

C1_Witness ==
    /\ mp_pc = "returned"
    /\ seq_pc = "returned"
    /\ N >= 2
    /\ OutOfOrder
    /\ cnst # DefaultConstants
    /\ \E i \in 1..N : \E j \in 1..(2 * N - 1) : mp_result[i][j] # 0

\* C2: the assembled matrix holds at row k exactly the row fill_row returned
\* tagged with index k; every index 0..N-1 appears exactly once among the
\* results collected; the order of completion plays no part.
C2_RowsByIndex ==
    mp_pc = "returned" =>
        /\ Len(mp_result) = N
        /\ \A k \in 0..(N - 1) :
              /\ Cardinality({p \in 1..Len(completed) : completed[p].i = k}) = 1
              /\ Cardinality({p \in 1..Len(results) : results[p][1] = k}) = 1
              /\ \E p \in 1..Len(completed) :
                    /\ completed[p].ok
                    /\ completed[p].val[1] = k
                    /\ mp_result[k + 1] = completed[p].val[2]

C2_Witness ==
    /\ mp_pc = "returned"
    /\ OutOfOrder
    /\ N = 3
    /\ mp_result[1] # mp_result[3]

\* C6: once a fill_row call has raised, no matrix is returned: pool.map raises
\* an error that a fill_row call raised, and no row is started twice.
C6_FailurePropagates ==
    /\ Failed # {} => (mp_pc \notin {"assemble", "returned"} /\ mp_result = None)
    /\ (mp_pc = "raised" /\ pool # "none") =>
          /\ Failed # {}
          /\ \E k \in Failed : mp_error = completed[k].val
          /\ mp_result = None
    /\ \A r \in DOMAIN attempts : attempts[r] <= 1

\* row 2 raised, other rows were computed, and the call failed with row 2's error
C6_Witness ==
    /\ mp_pc = "raised"
    /\ Failed # {}
    /\ mp_error.row = 2
    /\ \E k \in 1..Len(completed) : completed[k].ok

IsShape(m, rows, cols) ==
    /\ Len(m) = rows
    /\ \A r \in 1..rows : Len(m[r]) = cols

\* C7: for N >= 2 both builders return a matrix of N rows and 2N-1 columns.
C7_Shape ==
    N >= 2 =>
        /\ seq_pc = "returned" => IsShape(seq_result, N, 2 * N - 1)
        /\ mp_pc = "returned" => IsShape(mp_result, N, 2 * N - 1)

C7_Witness ==
    /\ N = 3
    /\ seq_pc = "returned"
    /\ mp_pc = "returned"
    /\ IsShape(seq_result, 3, 5)
    /\ IsShape(mp_result, 3, 5)

\* the i-th of N equally spaced values from 0 to pi, the j-th of 2N-1 from
\* -pi to pi (0-based, N >= 2)
Theta1At(i) == (i * pi) \div (N - 1)
Theta2At(j) == -pi + (j * 2 * pi) \div (2 * N - 2)

CellsAreFlipCounts(m) ==
    \A i \in 0..(N - 1) : \A j \in 0..(2 * N - 2) :
        LET cf == count_flips(Theta1At(i), Theta2At(j), cnst)
        IN  cf.ok /\ m[i + 1][j + 1] = cf.val

\* C8: in the grid either builder returns, cell (i, j) is
\* count_flips(theta1_i, theta2_j, cnst).
C8_CellValues ==
    N >= 2 =>
        /\ seq_pc = "returned" => CellsAreFlipCounts(seq_result)
        /\ mp_pc = "returned" => CellsAreFlipCounts(mp_result)

\* both grids returned, with cells that differ along a row and along a column
C8_Witness ==
    /\ N >= 2
    /\ seq_pc = "returned"
    /\ mp_pc = "returned"
    /\ \E i \in 1..N : \E j, k \in 1..(2 * N - 1) : mp_result[i][j] # mp_result[i][k]
    /\ \E i, k \in 1..N : \E j \in 1..(2 * N - 1) : seq_result[i][j] # seq_result[k][j]

NonPositiveConstants(c) == c.l1 <= 0 \/ c.l2 <= 0 \/ c.m1 <= 0 \/ c.m2 <= 0

\* C9: a call with non-positive N, non-positive num_processes (multiproc) or
\* non-positive l1, l2, m1 or m2 is rejected before any cell is evaluated:
\* no count_flips call and no worker dispatch happens.
C9_InvalidRejectedFirst ==
    /\ (N <= 0 \/ NonPositiveConstants(cnst)) =>
          (seq_pc \in {"start", "raised"} /\ seq_calls = {})
    /\ (N <= 0 \/ num_processes <= 0 \/ NonPositiveConstants(cnst)) =>
          (mp_pc \in {"start", "raised"} /\ pool = "none" /\ mp_calls = {})

----------------------------------------------------------------------------
(* Claims about the pool's life (checked under SpecPool) *)

\* the call is past its with block: it is assembling, has returned or has raised
PastWithBlock == mp_pc \in {"assemble", "returned", "raised"}

\* C13: each call of get_resmap_multiproc that gets as far as Pool(...)
\* creates a pool of its own, and that pool is terminated when the call leaves
\* its with block, by a return or by an exception: from then on no worker
\* process is alive, no row job is queued, held or in flight, and every pool
\* ever created is terminated; the pool a call dispatches to is the one that
\* call created, never the pool of an earlier call.
C13_PoolShutDownOnExit ==
    /\ PastWithBlock
           => /\ pool # "running"
              /\ worker = <<>>
              /\ taskqueue = <<>>
              /\ outqueue = <<>>
              /\ \A k \in DOMAIN pools : pools[k].state = "terminated"
    /\ \A j, k \in DOMAIN pools : j < k => pools[j].call < pools[k].call
    /\ \A k \in DOMAIN pools : pools[k].call <= mp_call
    /\ mp_pc \in {"map", "assemble", "returned"}
           => pools # <<>> /\ pools[Len(pools)].call = mp_call
    /\ mp_pc = "map"
           => /\ pool = "running"
              /\ pools[Len(pools)].state = "running"
              /\ \A k \in 1..(Len(pools) - 1) : pools[k].state = "terminated"
    /\ pool = "none" => \A k \in DOMAIN pools : pools[k].call < mp_call

\* a later call has raised out of pool.map: its pool and the pool of the
\* call before it are both terminated
C13_Witness ==
    /\ mp_call > 1
    /\ mp_pc = "raised"
    /\ mp_error.exc = "ValueError"
    /\ mp_error.row >= 0
    /\ Len(pools) = mp_call
    /\ pool = "terminated"
    /\ worker = <<>>

----------------------------------------------------------------------------
(* Claims about the pendulum at rest (checked under SpecOde) *)

\* C12: with init_theta1 = 0, init_theta2 = 0 and zero angular velocities,
\* right_hand_side is the zero vector at every time stamp, every row of sol
\* is <<0, 0, 0, 0>>, and count_flips gets the empty list from the flip
\* detector, without error: 0 flips, for every T_final and every valid
\* Constants value.
C12_RestStateNoFlips ==
    (ode_pc # "idle" /\ sol[1] = AtRest)
        => /\ \A k \in 1..NumSamples :
                  right_hand_side(AtRest,
                                  linspace(0, cnst.T_final * (NumSamples - 1),
                                           NumSamples)[k], cnst) = AtRest
           /\ \A k \in 1..Len(sol) : sol[k] = AtRest
           /\ ode_pc = "flips" => theta2_angles = [k \in 1..NumSamples |-> 0]
           /\ fp_pc # "raised"
           /\ fp_pc = "returned" => Len(res) = 0

\* count_flips has its result for the pendulum at rest, under Constants
\* that differ from the defaults in every field
C12_Witness ==
    /\ ode_pc = "flips"
    /\ fp_pc = "returned"
    /\ sol[1] = AtRest
    /\ Len(sol) = NumSamples
    /\ \A f \in DOMAIN cnst : cnst[f] # DefaultConstants[f]
    /\ res = <<>>

====
